---- MODULE Spec2Model ----
(***************************************************************************)
(* root_to_hdf5.py: conversion of ROOT trees to HDF5 datasets.             *)
(*                                                                         *)
(* The model follows main()'s loop over the input files and, inside it,    *)
(* process_file, setup_outfile and process_chunk.  uproot and h5py are     *)
(* modelled by what the program asks of them:                              *)
(*   - up.open either raises OSError, returns an object that is not a      *)
(*     tree/directory, or returns a handle on the source layout `content`; *)
(*   - file[tree] raises KeyError when the tree is absent;                 *)
(*   - up.iterate yields the tree's batches in file order, every batch a   *)
(*     mapping from each resolved branch to an array;                      *)
(*   - h5py.File(name, "w") creates an empty container, create_dataset     *)
(*     raises ValueError on a name that exists, resize pads with the fill  *)
(*     value, slice assignment converts to the dataset's element type,     *)
(*     and any write may fail with OSError.                                *)
(* Values are kept in halves (2*v is the integer v, 2*v+1 is v + 0.5) so   *)
(* that the float64 -> int32 conversion h5py performs is not the identity. *)
(***************************************************************************)
EXTENDS Integers, Sequences, FiniteSets, TLC

\* ---------------------------------------------------------------- bounds
NumFiles == 2
MaxBatches == 2

\* Batch lengths up.iterate may yield (0: an empty entry range).
BatchLens == {0, 1, 2}
\* Destination stems of the input files (two inputs may share a stem).
Stems == {"a", "b"}
\* Which destinations exist before the run starts.
PreExisting == {{}, {"b"}}
\* The -t lists given on the command line (none, one, two, one named twice).
TreeLists == {<< >>, <<"A">>, <<"A", "B">>, <<"A", "A">>}

\* ------------------------------------------------------- the source side
TreeNames == {"A", "B", "/"}
NoTree == [present |-> FALSE, lens |-> << >>]
Tree(lens) == [present |-> TRUE, lens |-> lens]

\* file[tree].branches, by fName, in the file's order (lines 91-93).
TreeBranches(tree) ==
    CASE tree = "A" -> <<"x", "y">>
      [] tree = "B" -> <<"z">>
      [] OTHER      -> <<"x">>

\* The element type uproot's interpretation gives each branch.
BranchType(branch) == IF branch = "y" THEN "float64" ELSE "int32"

OtherType(t) == IF t = "int32" THEN "float64" ELSE "int32"

BranchId(branch) ==
    CASE branch = "x" -> 1
      [] branch = "y" -> 2
      [] OTHER        -> 3

RECURSIVE SumLens(_, _)
SumLens(lens, k) == IF k = 0 THEN 0 ELSE lens[k] + SumLens(lens, k - 1)

LenSeqs == UNION {[1..n -> BatchLens] : n \in 0..MaxBatches}

VARIABLES
    infiles,    \* parsed.infiles: the destination stem of each input file
    named,      \* the -t values as parsed (the initial content of parsed.trees)
    content,    \* the layout of a readable input: tree -> NoTree or batch lengths
    flipAt,     \* 0, or the batch number delivered with the other element type
    trees,      \* parsed.trees, the one list object passed to every process_file
    i,          \* index of the file main's loop is at
    pc,         \* position: main, trees, branches, setup, data, raised, crashed, done
    status,     \* per file: pending, running, ok, or the exception it raised
    fs,         \* the output folder: stem -> file
    open,       \* stems whose h5py.File handle has not been released
    branches,   \* process_file's local dict tree -> branch names
    tIdx,       \* data pass: index into trees
    bIdx,       \* data pass: number of the next batch of trees[tIdx]
    log         \* files reported as skipped, in order

vars == <<infiles, named, content, flipAt, trees, i, pc, status, fs, open,
          branches, tIdx, bIdx, log>>

\* Element type of branch `b` in batch `k`.
BatchType(b, k) == IF k = flipAt THEN OtherType(BranchType(b)) ELSE BranchType(b)

\* Row r (counted over the whole tree) of branch b, delivered with type t.
SrcVal(b, r, t) == 2 * (8 * BranchId(b) + r) + (IF t = "float64" THEN 1 ELSE 0)

\* array[b] of batch k of `tree`, as up.iterate(..., library="numpy") yields it.
BatchArray(tree, b, k) ==
    LET lens == content[tree].lens
        off  == SumLens(lens, k - 1)
    IN  [j \in 1..lens[k] |-> SrcVal(b, off + j, BatchType(b, k))]

NumBatches(tree) == Len(content[tree].lens)

\* -------------------------------------------------- the destination side
EmptyDsets == [p \in {} |-> 0]
NoFile  == [kind |-> "none", dsets |-> EmptyDsets]
Foreign == [kind |-> "foreign", dsets |-> EmptyDsets]
NewFile(d) == [kind |-> "hdf5", dsets |-> d]

FillValue == 0

\* tree + "/" + a (line 49) and tree + "/" + branch (line 70).
DsetPath(tree, b) == tree \o "/" \o b

\* numpy -> HDF5 conversion of one value into a dataset of element type `to`:
\* a float64 written to an int32 dataset loses its fraction.
Cast(v, to) == IF to = "int32" THEN v - (v % 2) ELSE v

\* dset.resize(n, axis=0): rows beyond the old extent read as the fill value.
Resize(data, n) ==
    IF n >= Len(data)
    THEN data \o [j \in 1..(n - Len(data)) |-> FillValue]
    ELSE SubSeq(data, 1, n)

\* dset[start:] = vals  (start counted from 0).
SliceAssign(data, start, vals) == SubSeq(data, 1, start) \o vals

\* A write that sizes the dataset to the batch instead of growing it.
WriteResizeToBatch(dset, arr) ==
    LET data_len == Len(arr)
        grown    == Resize(dset.data, data_len)
    IN  [dset EXCEPT !.data = SliceAssign(grown, Len(grown) - data_len,
                                  [j \in 1..data_len |-> Cast(arr[j], dset.dtype)])]

\* process_chunk.write (lines 64-67).
Write(dset, arr) ==
    LET data_len == Len(arr)
        grown    == Resize(dset.data, Len(dset.data) + data_len)
    IN  [dset EXCEPT !.data = SliceAssign(grown, Len(grown) - data_len,
                                  [j \in 1..data_len |-> Cast(arr[j], dset.dtype)])]

\* Where an I/O failure strikes inside a chunk: nowhere, or in the resize or
\* the slice assignment of the chunk's j-th branch.
NoFault == <<0, "none">>
FaultPoints(n) == {NoFault} \cup ((1..n) \X {"resize", "assign"})

\* process_chunk (lines 69-71) from the j-th branch of the batch on.
RECURSIVE ChunkFrom(_, _, _, _, _)
ChunkFrom(dsets, tree, k, j, fault) ==
    LET cols == branches[tree] IN
    IF j > Len(cols) THEN [dsets |-> dsets, err |-> "none"]
    ELSE LET b   == cols[j]
             p   == DsetPath(tree, b)
             arr == BatchArray(tree, b, k)
         IN  IF p \notin DOMAIN dsets THEN [dsets |-> dsets, err |-> "KeyError"]
             ELSE IF fault = <<j, "resize">> THEN [dsets |-> dsets, err |-> "OSError"]
             ELSE IF fault = <<j, "assign">>
                  THEN [dsets |-> [dsets EXCEPT ![p].data = Resize(@, Len(@) + Len(arr))],
                        err   |-> "OSError"]
             ELSE ChunkFrom([dsets EXCEPT ![p] = Write(@, arr)], tree, k, j + 1, fault)

\* setup_outfile's inner loop (lines 47-55) over the first batch of `tree`.
RECURSIVE SetupBranches(_, _, _)
SetupBranches(dsets, tree, j) ==
    LET cols == branches[tree] IN
    IF j > Len(cols) THEN [dsets |-> dsets, err |-> "none"]
    ELSE LET p == DsetPath(tree, cols[j]) IN
         IF p \in DOMAIN dsets THEN [dsets |-> dsets, err |-> "ValueError"]
         ELSE SetupBranches(
                  dsets @@ (p :> [dtype |-> BatchType(cols[j], 1), data |-> << >>]),
                  tree, j + 1)

\* setup_outfile's loop over trees (lines 45-56): only a first batch creates.
RECURSIVE SetupFrom(_, _)
SetupFrom(dsets, t) ==
    IF t > Len(trees) THEN [dsets |-> dsets, err |-> "none"]
    ELSE IF NumBatches(trees[t]) = 0 THEN SetupFrom(dsets, t + 1)
    ELSE LET r == SetupBranches(dsets, trees[t], 1) IN
         IF r.err # "none" THEN r ELSE SetupFrom(r.dsets, t + 1)

\* Path(outfilename).exists() (line 42).
DestNeverExists(files, dest) == FALSE
DestExists(files, dest) == files[dest] # NoFile

\* An except clause that only knows FileExistsError.
IsFileExistsError(exc) == exc = "FileExistsError"
\* An except clause that catches everything.
IsAnyException(exc) == TRUE
\* `except OSError` (line 176): FileExistsError and PermissionError are
\* subclasses of OSError.
IsOSError(exc) == exc \in {"OSError", "FileExistsError", "PermissionError"}

\* A default that is appended whatever the list holds.
AlwaysAppendRoot(ts) == Append(ts, "/")
\* lines 84-85: the in-place default of the shared tree list.
WithDefaultTree(ts) == IF Len(ts) = 0 THEN Append(ts, "/") ELSE ts

Range(s) == {s[k] : k \in DOMAIN s}
Used(ts) == IF ts = << >> THEN {"/"} ELSE Range(ts)
NoBranches == [t \in {} |-> << >>]

\* ------------------------------------------------------------ behaviour
InitRun(flips) ==
    /\ infiles \in [1..NumFiles -> Stems]
    /\ named \in TreeLists
    /\ \E lens \in LenSeqs :
       \E c \in [Used(named) -> {NoTree, Tree(<< >>), Tree(lens)}] :
           content = [t \in TreeNames |-> IF t \in Used(named) THEN c[t] ELSE NoTree]
    /\ flipAt \in flips
    /\ trees = named
    /\ i = 1
    /\ pc = "main"
    /\ status = [k \in 1..NumFiles |-> "pending"]
    /\ \E pre \in PreExisting :
           fs = [s \in Stems |-> IF s \in pre THEN Foreign ELSE NoFile]
    /\ open = {}
    /\ branches = NoBranches
    /\ tIdx = 0
    /\ bIdx = 0
    /\ log = << >>

\* Sources as uproot delivers them: one element type per branch.
Init == InitRun({0})

\* Sources that break that contract: a later batch, none of them empty, comes
\* with another element type than the first.
InitMismatch ==
    /\ InitRun(2..MaxBatches)
    /\ \A t \in TreeNames : \A k \in DOMAIN content[t].lens : content[t].lens[k] > 0

Raise(exc) ==
    /\ status' = [status EXCEPT ![i] = exc]
    /\ pc' = "raised"

\* main line 163-166 and process_file lines 75-81.
OpenSource(o) ==
    /\ pc = "main"
    /\ i <= NumFiles
    /\ IF o = "ok"
       THEN status' = [status EXCEPT ![i] = "running"] /\ pc' = "trees"
       ELSE Raise(o)
    /\ UNCHANGED <<infiles, named, content, flipAt, trees, i, fs, open,
                   branches, tIdx, bIdx, log>>

\* process_file lines 84-85.
DefaultTrees ==
    /\ pc = "trees"
    /\ trees' = WithDefaultTree(trees)
    /\ pc' = "branches"
    /\ UNCHANGED <<infiles, named, content, flipAt, i, status, fs, open,
                   branches, tIdx, bIdx, log>>

\* process_file lines 87-93.
ResolveBranches ==
    /\ pc = "branches"
    /\ IF \E k \in DOMAIN trees : ~content[trees[k]].present
       THEN Raise("KeyError") /\ UNCHANGED branches
       ELSE /\ branches' = [t \in Range(trees) |-> TreeBranches(t)]
            /\ pc' = "setup"
            /\ UNCHANGED status
    /\ UNCHANGED <<infiles, named, content, flipAt, trees, i, fs, open,
                   tIdx, bIdx, log>>

\* setup_outfile (lines 42-57), called at line 94.
SetupOutfile ==
    /\ pc = "setup"
    /\ LET dest == infiles[i] IN
       IF DestExists(fs, dest)
       THEN Raise("FileExistsError") /\ UNCHANGED <<fs, open, tIdx, bIdx>>
       ELSE LET r == SetupFrom(EmptyDsets, 1) IN
            /\ fs' = [fs EXCEPT ![dest] = NewFile(r.dsets)]
            /\ open' = open \cup {dest}
            /\ IF r.err = "none"
               THEN pc' = "data" /\ tIdx' = 1 /\ bIdx' = 1 /\ UNCHANGED status
               ELSE Raise(r.err) /\ UNCHANGED <<tIdx, bIdx>>
    /\ UNCHANGED <<infiles, named, content, flipAt, trees, i, branches, log>>

\* One pass of the loop at lines 96-98: process_chunk on the next batch.
ProcessChunk(fault) ==
    /\ pc = "data"
    /\ tIdx <= Len(trees)
    /\ bIdx <= NumBatches(trees[tIdx])
    /\ fault \in FaultPoints(Len(branches[trees[tIdx]]))
    /\ LET dest == infiles[i]
           r    == ChunkFrom(fs[dest].dsets, trees[tIdx], bIdx, 1, fault)
       IN  /\ fs' = [fs EXCEPT ![dest].dsets = r.dsets]
           /\ IF r.err = "none"
              THEN bIdx' = bIdx + 1 /\ UNCHANGED <<pc, status>>
              ELSE Raise(r.err) /\ UNCHANGED bIdx
    /\ UNCHANGED <<infiles, named, content, flipAt, trees, i, open, branches,
                   tIdx, log>>

\* line 95: the batches of trees[tIdx] are exhausted, on to the next tree.
NextTree ==
    /\ pc = "data"
    /\ tIdx <= Len(trees)
    /\ bIdx > NumBatches(trees[tIdx])
    /\ tIdx' = tIdx + 1
    /\ bIdx' = 1
    /\ UNCHANGED <<infiles, named, content, flipAt, trees, i, pc, status, fs,
                   open, branches, log>>

\* process_file returns (after line 98).  No statement closes outfile: whether
\* the dropped handle is finalised at once is left to the runtime.
ReturnFile(finalised) ==
    /\ pc = "data"
    /\ tIdx > Len(trees)
    /\ status' = [status EXCEPT ![i] = "ok"]
    /\ open' = IF finalised THEN open \ {infiles[i]} ELSE open
    /\ i' = i + 1
    /\ pc' = "main"
    /\ branches' = NoBranches
    /\ tIdx' = 0
    /\ bIdx' = 0
    /\ UNCHANGED <<infiles, named, content, flipAt, trees, fs, log>>

\* main lines 176-189: the file is reported and skipped.  The traceback main
\* keeps in exc_tb still refers to the frames that hold outfile.
ExceptOSError ==
    /\ pc = "raised"
    /\ IsOSError(status[i])
    /\ log' = Append(log, i)
    /\ i' = i + 1
    /\ pc' = "main"
    /\ branches' = NoBranches
    /\ tIdx' = 0
    /\ bIdx' = 0
    /\ UNCHANGED <<infiles, named, content, flipAt, trees, status, fs, open>>

\* Any other exception leaves main's loop and ends the process.
Propagate ==
    /\ pc = "raised"
    /\ ~IsOSError(status[i])
    /\ pc' = "crashed"
    /\ UNCHANGED <<infiles, named, content, flipAt, trees, i, status, fs, open,
                   branches, tIdx, bIdx, log>>

\* main's loop is exhausted (line 163).
Finish ==
    /\ pc = "main"
    /\ i > NumFiles
    /\ pc' = "done"
    /\ UNCHANGED <<infiles, named, content, flipAt, trees, i, status, fs, open,
                   branches, tIdx, bIdx, log>>

Next ==
    \/ \E o \in {"ok", "PermissionError", "TypeError"} : OpenSource(o)
    \/ DefaultTrees
    \/ ResolveBranches
    \/ SetupOutfile
    \/ \E fault \in FaultPoints(2) : ProcessChunk(fault)
    \/ NextTree
    \/ \E finalised \in BOOLEAN : ReturnFile(finalised)
    \/ ExceptOSError
    \/ Propagate
    \/ Finish

Spec == Init /\ [][Next]_vars

SpecMismatch == InitMismatch /\ [][Next]_vars

\* ------------------------------------------------------------ properties
BranchNames == {"x", "y", "z"}
IOErrors == {"OSError", "FileExistsError", "PermissionError"}
SchemaErrors == {"TypeError", "KeyError", "ValueError"}

IsPrefix(s, t) == Len(s) <= Len(t) /\ s = SubSeq(t, 1, Len(s))

\* The whole column: the arrays of batches 1..k of `tree` for branch b, in order.
RECURSIVE ConcatBatches(_, _, _)
ConcatBatches(tree, b, k) ==
    IF k = 0 THEN << >> ELSE ConcatBatches(tree, b, k - 1) \o BatchArray(tree, b, k)

\* The datasets of container d that lie under `tree`.
PathsUnder(d, tree) == {p \in DOMAIN d : \E b \in BranchNames : p = DsetPath(tree, b)}

\* Number of batches of trees[n] that file f's data pass has appended.
Appended(f, n) ==
    IF status[f] = "ok" THEN NumBatches(trees[n])
    ELSE IF f = i /\ pc = "data"
         THEN (IF n < tIdx THEN NumBatches(trees[n])
               ELSE IF n = tIdx THEN bIdx - 1 ELSE 0)
         ELSE 0

\* C1: when a file's conversion completes, every resolved branch of every
\* requested tree has a dataset tree/branch that holds exactly the
\* concatenation, in emission order, of the branch's arrays of all batches.
C1_RoundTrip ==
    \A f \in 1..NumFiles :
        status[f] = "ok" =>
            \A t \in Range(trees) : \A b \in Range(TreeBranches(t)) :
                LET d == fs[infiles[f]].dsets
                    p == DsetPath(t, b)
                IN  /\ p \in DOMAIN d
                    /\ d[p].data = ConcatBatches(t, b, NumBatches(t))

\* The same for the trees that yield at least one batch.
RoundTripOfNonEmptyTrees ==
    \A f \in 1..NumFiles :
        status[f] = "ok" =>
            \A t \in Range(trees) : \A b \in Range(TreeBranches(t)) :
                LET d == fs[infiles[f]].dsets
                    p == DsetPath(t, b)
                IN  NumBatches(t) > 0 =>
                        /\ p \in DOMAIN d
                        /\ d[p].data = ConcatBatches(t, b, NumBatches(t))

\* C2: before the first append of a file, the datasets under every requested
\* tree are exactly one zero-row dataset per resolved branch.
C2_DatasetsBeforeFirstAppend ==
    (pc = "data" /\ tIdx = 1 /\ bIdx = 1) =>
        LET d == fs[infiles[i]].dsets IN
        \A t \in Range(trees) :
            /\ PathsUnder(d, t) = {DsetPath(t, b) : b \in Range(branches[t])}
            /\ \A p \in PathsUnder(d, t) : d[p].data = << >>

\* C3: a dataset has the element type of its branch in the first batch, and no
\* batch of another element type is ever appended to it (such a batch raises
\* instead).
C3_AppendedTypesMatch ==
    \A f \in 1..NumFiles : \A n \in DOMAIN trees :
        \A b \in Range(TreeBranches(trees[n])) : \A k \in 1..Appended(f, n) :
            LET d == fs[infiles[f]].dsets
                p == DsetPath(trees[n], b)
            IN  /\ p \in DOMAIN d
                /\ d[p].dtype = BatchType(b, 1)
                /\ BatchType(b, k) = d[p].dtype

\* C4: when the destination exists as the container would be created, the
\* file's conversion fails with FileExistsError and the step changes no file
\* and opens no handle; a file that was there before the run is never
\* changed nor opened.
C4_ExistingDestinationUntouched ==
    /\ [][(pc = "setup" /\ fs[infiles[i]] # NoFile) =>
              /\ fs' = fs
              /\ open' = open
              /\ pc' = "raised"
              /\ status'[i] = "FileExistsError"]_vars
    /\ [][\A s \in Stems : fs[s] = Foreign => (fs'[s] = Foreign /\ s \notin open')]_vars

C4_Witness ==
    /\ pc = "main"
    /\ i = 2
    /\ infiles[1] = "b"
    /\ status[1] = "FileExistsError"
    /\ log = <<1>>
    /\ fs["b"] = Foreign

\* C5: no conversion gets past schema probing, let alone completes, when a
\* requested tree yields zero batches.
C5_EmptyTreeFailsProbe ==
    \A f \in 1..NumFiles :
        (status[f] = "ok" \/ (f = i /\ pc = "data")) =>
            \A t \in Range(trees) : NumBatches(t) > 0

\* C6: a file that fails with an OSError is abandoned and logged and the loop
\* moves to the next file; files are attempted one at a time in the supplied
\* order; the run never stops early on an OSError, and it ends having
\* attempted every file unless a file raised something else.
C6_IOFailuresAreSkipped ==
    /\ [][(pc = "raised" /\ status[i] \in IOErrors) =>
              /\ pc' = "main"
              /\ i' = i + 1
              /\ log' = Append(log, i)
              /\ fs' = fs
              /\ status' = status]_vars
    /\ [](\A f \in 1..NumFiles :
            /\ (f < i => status[f] \in IOErrors \cup {"ok"})
            /\ (f > i => status[f] = "pending"))
    /\ [](pc = "crashed" => status[i] \notin IOErrors)
    /\ [](pc = "done" =>
            /\ \A f \in 1..NumFiles : status[f] \in IOErrors \cup {"ok"}
            /\ \A f \in 1..NumFiles :
                   status[f] \in IOErrors <=> \E k \in DOMAIN log : log[k] = f)
    /\ [](pc \in {"done", "crashed"} \/ ENABLED Next)

C6_Witness ==
    /\ pc = "done"
    /\ status[1] = "OSError"
    /\ status[2] = "ok"
    /\ log = <<1>>

\* C7: no output container of an earlier file is still open when main's loop
\* is between files or has ended.
C7_ReleasedBetweenFiles == pc \in {"main", "done"} => open = {}

\* C8: a TypeError (the source is no tree), a KeyError (a requested tree is
\* absent) or a ValueError (a dataset name is taken) raised by a file is not
\* caught per file: the run ends there and no later file is attempted.
C8_SchemaErrorsAbortRun ==
    \A f \in 1..NumFiles :
        status[f] \in SchemaErrors =>
            /\ f = i
            /\ pc \in {"raised", "crashed"}
            /\ \A g \in (f + 1)..NumFiles : status[g] = "pending"
            /\ \A k \in DOMAIN log : log[k] # f
            /\ ~ENABLED ExceptOSError
            /\ (pc = "crashed" => ~ENABLED Next)

C8_Witness ==
    /\ pc = "crashed"
    /\ status[1] = "KeyError"
    /\ status[2] = "pending"
    /\ log = << >>

C10_SharedTreeList ==
    /\ named # << >> => trees = named
    /\ named = << >> => trees \in {<< >>, <<"/">>}
    /\ pc \in {"branches", "setup", "data"} =>
           trees = (IF named = << >> THEN <<"/">> ELSE named)

C10_Witness ==
    /\ named = << >>
    /\ status[1] = "OSError"
    /\ i = 2
    /\ pc = "data"
    /\ trees = <<"/">>

====
